---- MODULE Spec2Model ----
(***************************************************************************)
(* Interview Question Forecaster (src/app.py).                             *)
(*                                                                         *)
(* The model covers the text extractor, the reply parser, the crib-sheet   *)
(* exporter and the Streamlit script main(), which Streamlit re-runs from  *)
(* the top on every user interaction.                                      *)
(*                                                                         *)
(* Text is modelled as a sequence of characters (one-character strings, or *)
(* atoms standing for a word); a list of strings as a sequence of strings. *)
(* A model reply is a sequence of lexical tokens: braces, the opening and  *)
(* closing of an array member, complete "key": value members, and prose.   *)
(***************************************************************************)
EXTENDS Integers, Sequences, FiniteSets, TLC

VARIABLES
    env_key,        \* os.environ.get("General"): [set, val]
    session_state,  \* st.session_state: [has, analysis_result]
    pc,             \* position of the running script / of the function under check
    runs,           \* number of script runs started in this session
    widgets,        \* widget values of the current run
    tmp_files,      \* temporary files present on disk
    resume_content, \* local of main()
    jd_content,     \* local of main()
    client,         \* TRUE once OpenAIQuestionGenerator was constructed in this run
    requests,       \* prompts sent to the model endpoint in this run, in order
    log,            \* steps of the analysis of this run, in order: [step, ok]
    emit,           \* what the model endpoint answered: [ok, pre, payload, post, form]
    content,        \* response.choices[0].message.content
    json_str,       \* local of _parse_response
    outcome,        \* what generate_questions / _parse_response returned or raised
    shown,          \* what this run rendered: [error, results, metrics, cards, story]
    file,           \* argument of extract_text_from_file
    extracted       \* what extract_text_from_file returned or raised

vars == <<env_key, session_state, pc, runs, widgets, tmp_files, resume_content,
          jd_content, client, requests, log, emit, content, json_str, outcome,
          shown, file, extracted>>

----------------------------------------------------------------------------
(* Bounds of the model. *)

\* Largest number of elements of a payload's questions array (session, parser).
MaxQuestions == 2
\* Largest number of questions of an exported AnalysisResult.
MaxExportQuestions == 10
\* Script runs per session.
MaxRuns == 3

----------------------------------------------------------------------------
(* Python values. *)

\* Exceptions: the class and str(e), as the sequence of its parts.
NoExc == [type |-> "", msg |-> <<>>]
Exc(type, msg) == [type |-> type, msg |-> msg]

\* A call's outcome: a returned value or a raised exception.
Returned(value) == [ok |-> TRUE, value |-> value, exc |-> NoExc]

\* str.strip() on a sequence of characters; " " is whitespace.
RECURSIVE LStrip(_)
LStrip(s) == IF s # <<>> /\ Head(s) = " " THEN LStrip(Tail(s)) ELSE s

RECURSIVE RStrip(_)
RStrip(s) ==
    IF s # <<>> /\ s[Len(s)] = " " THEN RStrip(SubSeq(s, 1, Len(s) - 1)) ELSE s

Strip(s) == RStrip(LStrip(s))

\* Python's s[a:b] for 0 <= a, 0 <= b: the items at 0-based positions a..b-1.
Slice(s, a, b) ==
    LET hi == IF b > Len(s) THEN Len(s) ELSE b
    IN  IF a >= hi THEN <<>> ELSE SubSeq(s, a + 1, hi)

----------------------------------------------------------------------------
(* Tokens of a reply, and JSON values.                                     *)
(* A scalar JSON value is [kind, v, n]: v for a string or a list of        *)
(* strings, n for a number in thousandths (0.9 is 900).                    *)

Str(v) == [kind |-> "str", v |-> v, n |-> 0]
List(v) == [kind |-> "list", v |-> v, n |-> 0]
Num(n) == [kind |-> "num", v |-> <<>>, n |-> n]

\* bool(x) of a JSON value
Truthy(x) == IF x.kind = "num" THEN x.n # 0 ELSE x.v # <<>>

LBrace == [t |-> "lbrace", k |-> "{", val |-> Str(<<>>)]
RBrace == [t |-> "rbrace", k |-> "}", val |-> Str(<<>>)]
\* "key": [
Open(k) == [t |-> "open", k |-> k, val |-> Str(<<>>)]
\* ]
Close == [t |-> "close", k |-> "]", val |-> Str(<<>>)]
\* "key": value
Member(k, val) == [t |-> "member", k |-> k, val |-> val]
\* A word of prose: no brace in it, and no JSON.
Prose == [t |-> "prose", k |-> "w", val |-> Str(<<>>)]

\* dict: a function from its keys. d[k] = x, a later key replacing an earlier one.
EmptyDict == <<>>
Put(d, k, x) == [y \in (DOMAIN d) \cup {k} |-> IF y = k THEN x ELSE d[y]]
\* dict.get(k, default)
Get(d, k, default) == IF k \in DOMAIN d THEN d[k] ELSE default

JsonFail == [ok |-> FALSE, val |-> EmptyDict, next |-> 0]

\* json.loads on the token level: object := { member* }, member := "k": value
\* | "k": [ object* ].  Anything else is a syntax error.
RECURSIVE ParseObject(_, _)
RECURSIVE ParseMembers(_, _, _)
RECURSIVE ParseArray(_, _, _)

ParseObject(toks, i) ==
    IF i <= Len(toks) /\ toks[i].t = "lbrace"
    THEN ParseMembers(toks, i + 1, EmptyDict)
    ELSE JsonFail

ParseMembers(toks, i, acc) ==
    IF i > Len(toks) THEN JsonFail
    ELSE IF toks[i].t = "rbrace" THEN [ok |-> TRUE, val |-> acc, next |-> i + 1]
    ELSE IF toks[i].t = "member"
         THEN ParseMembers(toks, i + 1, Put(acc, toks[i].k, toks[i].val))
    ELSE IF toks[i].t = "open"
         THEN LET a == ParseArray(toks, i + 1, <<>>)
              IN  IF a.ok THEN ParseMembers(toks, a.next, Put(acc, toks[i].k, a.val))
                  ELSE JsonFail
    ELSE JsonFail

ParseArray(toks, i, acc) ==
    IF i > Len(toks) THEN JsonFail
    ELSE IF toks[i].t = "close" THEN [ok |-> TRUE, val |-> acc, next |-> i + 1]
    ELSE IF toks[i].t = "lbrace"
         THEN LET o == ParseObject(toks, i)
              IN  IF o.ok THEN ParseArray(toks, o.next, Append(acc, o.val))
                  ELSE JsonFail
    ELSE JsonFail

\* json.loads(json_str): the whole text must be one object.
JsonLoads(toks) ==
    LET o == ParseObject(toks, 1)
    IN  IF o.ok /\ o.next = Len(toks) + 1 THEN o ELSE JsonFail

----------------------------------------------------------------------------
(* Data model (src/app.py 26-41). *)

Fields == <<"question", "answer", "category", "confidence">>
FieldSet == {Fields[i] : i \in DOMAIN Fields}

InterviewQuestion(question, answer, category, confidence) ==
    [question |-> question, answer |-> answer, category |-> category,
     confidence |-> confidence]

AnalysisResult(questions, summary, key_skills, experience_gaps) ==
    [questions |-> questions, summary |-> summary, key_skills |-> key_skills,
     experience_gaps |-> experience_gaps]

\* The value slot of an outcome that raised.
NoResult == AnalysisResult(<<>>, Str(<<>>), List(<<>>), List(<<>>))
Raised(type, msg) == [ok |-> FALSE, value |-> NoResult, exc |-> Exc(type, msg)]

----------------------------------------------------------------------------
(* OpenAIQuestionGenerator._parse_response (src/app.py 142-175). *)

\* content.find('{'): the 0-based position of the first token of kind t, or -1.
RECURSIVE FindFrom(_, _, _)
FindFrom(s, t, i) ==
    IF i > Len(s) THEN -1
    ELSE IF s[i].t = t THEN i - 1
    ELSE FindFrom(s, t, i + 1)

Find(s, t) == FindFrom(s, t, 1)

\* content.rfind('}'): the 0-based position of the last token of kind t, or -1.
RECURSIVE RFindFrom(_, _, _)
RFindFrom(s, t, i) ==
    IF i < 1 THEN -1
    ELSE IF s[i].t = t THEN i - 1
    ELSE RFindFrom(s, t, i - 1)

RFind(s, t) == RFindFrom(s, t, Len(s))

StartIdx(c) == Find(c, "lbrace")

\* EndIdx with the first '}' taken for the last one (find for rfind).
EndIdxFirstBrace(c) == Find(c, "rbrace") + 1

EndIdx(c) == RFind(c, "rbrace") + 1

\* json_str = content[start_idx:end_idx], unassigned (here empty) when the
\* brace test raised first.
JsonStr(c) ==
    IF StartIdx(c) = -1 \/ EndIdx(c) = 0 THEN <<>>
    ELSE Slice(c, StartIdx(c), EndIdx(c))

\* The first key of Fields that q_data lacks, in the order the constructor call
\* reads them (lines 158-161); "" when none is missing.
RECURSIVE FirstMissing(_, _)
FirstMissing(q_data, i) ==
    IF i > Len(Fields) THEN ""
    ELSE IF Fields[i] \notin DOMAIN q_data THEN Fields[i]
    ELSE FirstMissing(q_data, i + 1)

\* The loop of lines 155-163: questions grows by one InterviewQuestion per
\* element; q_data[k] on a missing key raises KeyError(k), whose str is the
\* quoted key.
\* BuildQuestions with an element that lacks a field skipped (a lenient loop).
RECURSIVE BuildQuestionsSkip(_, _, _)
BuildQuestionsSkip(items, i, questions) ==
    IF i > Len(items) THEN Returned(questions)
    ELSE LET q_data == items[i]
         IN  IF FirstMissing(q_data, 1) # ""
             THEN BuildQuestionsSkip(items, i + 1, questions)
             ELSE BuildQuestionsSkip(items, i + 1,
                      Append(questions,
                             InterviewQuestion(q_data["question"], q_data["answer"],
                                               q_data["category"],
                                               q_data["confidence"])))

\* BuildQuestions returning the questions built so far when an element lacks
\* a field (the KeyError swallowed inside the loop).
RECURSIVE BuildQuestionsPartial(_, _, _)
BuildQuestionsPartial(items, i, questions) ==
    IF i > Len(items) THEN Returned(questions)
    ELSE LET q_data == items[i]
         IN  IF FirstMissing(q_data, 1) # ""
             THEN Returned(questions)
             ELSE BuildQuestionsPartial(items, i + 1,
                      Append(questions,
                             InterviewQuestion(q_data["question"], q_data["answer"],
                                               q_data["category"],
                                               q_data["confidence"])))

\* BuildQuestions with each question put in front of the list (insert(0, ...)
\* for append).
RECURSIVE BuildQuestionsPrepend(_, _, _)
BuildQuestionsPrepend(items, i, questions) ==
    IF i > Len(items) THEN Returned(questions)
    ELSE LET q_data == items[i]
             missing == FirstMissing(q_data, 1)
         IN  IF missing # ""
             THEN [ok |-> FALSE, value |-> <<>>, exc |-> Exc("KeyError", <<missing>>)]
             ELSE BuildQuestionsPrepend(items, i + 1,
                      <<InterviewQuestion(q_data["question"], q_data["answer"],
                                          q_data["category"], q_data["confidence"])>>
                      \o questions)

RECURSIVE BuildQuestions(_, _, _)
BuildQuestions(items, i, questions) ==
    IF i > Len(items) THEN Returned(questions)
    ELSE LET q_data == items[i]
             missing == FirstMissing(q_data, 1)
         IN  IF missing # ""
             THEN [ok |-> FALSE, value |-> <<>>, exc |-> Exc("KeyError", <<missing>>)]
             ELSE BuildQuestions(items, i + 1,
                      Append(questions,
                             InterviewQuestion(q_data["question"], q_data["answer"],
                                               q_data["category"],
                                               q_data["confidence"])))

ProcessingPrefix == "Error processing OpenAI response: "
JsonPrefix == "Error parsing OpenAI response as JSON: "

\* ParseResponse with summary read as data['summary']: a payload without it
\* raises KeyError, which line 175 wraps.
ParseResponseRequiredSummary(c) ==
    IF StartIdx(c) = -1 \/ EndIdx(c) = 0
    THEN Raised("ValueError", <<ProcessingPrefix, "No valid JSON found in response">>)
    ELSE LET data == JsonLoads(JsonStr(c))
         IN  IF ~data.ok
             THEN Raised("ValueError", <<JsonPrefix, "JSONDecodeError">>)
             ELSE LET qs == BuildQuestions(Get(data.val, "questions", <<>>), 1, <<>>)
                  IN  IF ~qs.ok
                      THEN Raised("ValueError", <<ProcessingPrefix>> \o qs.exc.msg)
                      ELSE IF "summary" \notin DOMAIN data.val
                      THEN Raised("ValueError", <<ProcessingPrefix, "summary">>)
                      ELSE Returned(AnalysisResult(
                               qs.value,
                               data.val["summary"],
                               Get(data.val, "key_skills", List(<<>>)),
                               Get(data.val, "experience_gaps", List(<<>>))))

ParseResponse(c) ==
    IF StartIdx(c) = -1 \/ EndIdx(c) = 0
    THEN \* the ValueError of line 150 is caught at line 174 and wrapped
         Raised("ValueError", <<ProcessingPrefix, "No valid JSON found in response">>)
    ELSE LET data == JsonLoads(JsonStr(c))
         IN  IF ~data.ok
             THEN Raised("ValueError", <<JsonPrefix, "JSONDecodeError">>)
             ELSE LET qs == BuildQuestions(Get(data.val, "questions", <<>>), 1, <<>>)
                  IN  IF ~qs.ok
                      THEN Raised("ValueError", <<ProcessingPrefix>> \o qs.exc.msg)
                      ELSE Returned(AnalysisResult(
                               qs.value,
                               Get(data.val, "summary", Str(<<>>)),
                               Get(data.val, "key_skills", List(<<>>)),
                               Get(data.val, "experience_gaps", List(<<>>))))

----------------------------------------------------------------------------
(* Text extraction (src/app.py 44-59, 267-280).                            *)
(* A file is [suffix, exists, data, pages]: suffix is Path(file).suffix as *)
(* characters ("" or "." and the extension), data tells what the bytes     *)
(* are: a PDF document whose page texts are pages, UTF-8 text whose        *)
(* content is the concatenation of pages, or neither.                      *)

ExtractRaised(type, msg) == [ok |-> FALSE, value |-> <<>>, exc |-> Exc(type, msg)]

RECURSIVE Concat(_)
Concat(ss) == IF ss = <<>> THEN <<>> ELSE Head(ss) \o Concat(Tail(ss))

LowerChar(c) ==
    CASE c = "P" -> "p" [] c = "D" -> "d" [] c = "F" -> "f" [] c = "T" -> "t"
      [] c = "X" -> "x" [] c = "M" -> "m" [] c = "O" -> "o" [] c = "C" -> "c"
      [] OTHER -> c

\* Lower with the case kept (a comparison that forgets .lower()).
LowerKeepsCase(s) == s

\* str.lower()
Lower(s) == [i \in DOMAIN s |-> LowerChar(s[i])]

\* PDFProcessor.extract_text_from_pdf: the page texts in page order, stripped;
\* any failure of fitz is re-raised as ValueError.
ExtractTextFromPdf(f) ==
    IF f.data = "pdfdoc"
    THEN Returned(Strip(Concat(f.pages)))
    ELSE ExtractRaised("ValueError", <<"Error extracting text from PDF ">>)

UnsupportedPrefix == "Unsupported file format: "
UnsupportedTail == ". Supported formats: .pdf, .txt, .md"

ExtractTextFromFile(f) ==
    IF ~f.exists
    THEN ExtractRaised("FileNotFoundError", <<"File not found: ">>)
    ELSE IF Lower(f.suffix) = <<".", "p", "d", "f">>
    THEN ExtractTextFromPdf(f)
    ELSE IF Lower(f.suffix) \in {<<".", "t", "x", "t">>, <<".", "m", "d">>}
    THEN \* open(..., encoding='utf-8').read() raises UnicodeDecodeError itself
         IF f.data = "utf8text"
         THEN Returned(Strip(Concat(f.pages)))
         ELSE ExtractRaised("UnicodeDecodeError", <<"'utf-8' codec can't decode">>)
    ELSE ExtractRaised("ValueError",
                       <<UnsupportedPrefix>> \o f.suffix \o <<UnsupportedTail>>)

----------------------------------------------------------------------------
(* PDFExporter.export_crib_sheet (src/app.py 215-264).                     *)
(* The document is the story handed to doc.build: its flowables in order.  *)
(* A flowable is [el, style, q, text, height]; q is the i of a "Q{i}: "    *)
(* heading and 0 elsewhere.                                                *)

Paragraph(text, style) ==
    [el |-> "Paragraph", style |-> style, q |-> 0, text |-> text, height |-> 0]
Heading(i, text) ==
    [el |-> "Paragraph", style |-> "QuestionStyle", q |-> i, text |-> text,
     height |-> 0]
Spacer(height) ==
    [el |-> "Spacer", style |-> "", q |-> 0, text |-> <<>>, height |-> height]
PageBreak ==
    [el |-> "PageBreak", style |-> "", q |-> 0, text |-> <<>>, height |-> 0]

\* " • ".join(items)
RECURSIVE Join(_)
Join(items) ==
    IF items = <<>> THEN <<>>
    ELSE IF Len(items) = 1 THEN <<Head(items)>>
    ELSE <<Head(items), " * ">> \o Join(Tail(items))

\* str.title() on the category labels the model uses.
TitleWord(w) ==
    CASE w = "technical" -> "Technical"
      [] w = "behavioral" -> "Behavioral"
      [] w = "other" -> "Other"
      [] OTHER -> w
Title(s) == [i \in DOMAIN s |-> TitleWord(s[i])]

\* f"{confidence:.1%}" of a number given in thousandths.
Percent(n) == <<ToString(n \div 10), ".", ToString(n % 10), "%">>

\* The question after which the page break goes (line 261).
PageBreakAfter == 5

\* A page break after every fifth question (i % 5 == 0 for i == 5).
IsBreakPointEveryFifth(i) == i % PageBreakAfter = 0

IsBreakPoint(i) == i = PageBreakAfter

\* The loop of lines 248-262.
RECURSIVE QuestionBlocks(_, _)
QuestionBlocks(questions, i) ==
    IF i > Len(questions) THEN <<>>
    ELSE LET q == questions[i]
         IN  <<Heading(i, q.question.v),
               Paragraph(<<"[">> \o Title(q.category.v) \o <<"] Confidence: ">>
                             \o Percent(q.confidence.n),
                         "AnswerStyle"),
               Paragraph(q.answer.v, "AnswerStyle")>>
             \o (IF IsBreakPoint(i) THEN <<PageBreak>> ELSE <<>>)
             \o QuestionBlocks(questions, i + 1)

ExportCribSheet(result) ==
    <<Paragraph(<<"Interview Question Crib Sheet">>, "HeaderStyle"), Spacer(12)>>
    \o (IF Truthy(result.summary)
        THEN <<Paragraph(<<"Summary">>, "QuestionStyle"),
               Paragraph(result.summary.v, "AnswerStyle"), Spacer(12)>>
        ELSE <<>>)
    \o (IF Truthy(result.key_skills)
        THEN <<Paragraph(<<"Key Skills to Highlight">>, "QuestionStyle"),
               Paragraph(Join(result.key_skills.v), "AnswerStyle"), Spacer(12)>>
        ELSE <<>>)
    \o (IF Truthy(result.experience_gaps)
        THEN <<Paragraph(<<"Potential Experience Gaps">>, "QuestionStyle"),
               Paragraph(Join(result.experience_gaps.v), "AnswerStyle"), Spacer(12)>>
        ELSE <<>>)
    \o <<Paragraph(<<"Interview Questions & STAR Responses">>, "QuestionStyle"),
         Spacer(6)>>
    \o QuestionBlocks(result.questions, 1)

----------------------------------------------------------------------------
(* OpenAIQuestionGenerator.generate_questions (src/app.py 70-88).          *)

GeneratePrefix == "Error generating questions with OpenAI: "

\* What the except clause of lines 87-88 makes of an exception raised inside
\* the try block, by the request or by _parse_response alike.
Rewrapped(exc) == Raised("RuntimeError", <<GeneratePrefix>> \o exc.msg)

\* Lines 84-88, given the reply's text: the parser's return value, or its
\* exception wrapped.
ParsedReply(c) ==
    LET r == ParseResponse(c)
    IN  IF r.ok THEN r ELSE Rewrapped(r.exc)

\* num_questions = 3 if short_mode else 10 (line 465)
NumQuestions(short_mode) == IF short_mode THEN 3 ELSE 10

\* The prompt of _create_analysis_prompt: the template with its three
\* parameters substituted.
CreateAnalysisPrompt(resume_text, job_description, num_questions) ==
    [resume_text |-> resume_text, job_description |-> job_description,
     num_questions |-> num_questions]

----------------------------------------------------------------------------
(* The results block of main() (src/app.py 475-545). *)

ConfidenceClass(confidence) ==
    IF confidence.n >= 800 THEN "confidence-high"
    ELSE IF confidence.n >= 600 THEN "confidence-medium"
    ELSE "confidence-low"

\* The cards of lines 520-545, one per question, numbered from 1.
RECURSIVE Cards(_, _)
Cards(questions, i) ==
    IF i > Len(questions) THEN <<>>
    ELSE LET question == questions[i]
         IN  <<[q |-> i,
                question |-> question.question.v,
                class |-> ConfidenceClass(question.confidence),
                badge |-> Title(question.category.v)
                          \o Percent(question.confidence.n),
                answer |-> question.answer.v]>>
             \o Cards(questions, i + 1)

\* sum(1 for q in result.questions if q.category == label)
CountCategory(questions, label) ==
    Cardinality({i \in DOMAIN questions : questions[i].category.v = <<label>>})

Metrics(result) ==
    [questions |-> Len(result.questions),
     technical |-> CountCategory(result.questions, "technical"),
     behavioral |-> CountCategory(result.questions, "behavioral")]

NoMetrics == [questions |-> 0, technical |-> 0, behavioral |-> 0]

----------------------------------------------------------------------------
(* Replies of the model endpoint: the inputs of the parser.                *)
(* A reply is prose, a payload written out as tokens, and more prose; the  *)
(* payload may be absent, truncated, or interrupted by prose.              *)

\* The values of question element number id.
ElemValue(id, f) ==
    CASE f = "question"   -> Str(<<"Q", IF id = 1 THEN "1" ELSE "2">>)
      [] f = "answer"     -> Str(<<"A", IF id = 1 THEN "1" ELSE "2">>)
      [] f = "category"   -> Str(<<IF id = 1 THEN "technical" ELSE "behavioral">>)
      [] f = "confidence" -> Num(IF id = 1 THEN 900 ELSE 650)

\* A question element holding the fields of has.
Elem(id, has) == [f \in has |-> ElemValue(id, f)]

TopKeys == <<"summary", "key_skills", "experience_gaps">>
AllTop == {TopKeys[i] : i \in DOMAIN TopKeys}
TopValue(k) ==
    CASE k = "summary"         -> Str(<<"S">>)
      [] k = "key_skills"      -> List(<<"A", "B">>)
      [] k = "experience_gaps" -> List(<<"G">>)

\* A payload: the top-level members it has, whether it has a questions
\* member, and that member's elements.
Payload(top, has_questions, questions) ==
    [top |-> top, has_questions |-> has_questions, questions |-> questions]

EmptyPayload == Payload({}, FALSE, <<>>)

RECURSIVE WriteMembers(_, _, _)
WriteMembers(keys, i, d) ==
    IF i > Len(keys) THEN <<>>
    ELSE (IF keys[i] \in DOMAIN d THEN <<Member(keys[i], d[keys[i]])>> ELSE <<>>)
         \o WriteMembers(keys, i + 1, d)

WriteElem(e) == <<LBrace>> \o WriteMembers(Fields, 1, e) \o <<RBrace>>

RECURSIVE WriteElems(_, _)
WriteElems(es, i) ==
    IF i > Len(es) THEN <<>> ELSE WriteElem(es[i]) \o WriteElems(es, i + 1)

WritePayload(p) ==
    <<LBrace>>
    \o WriteMembers(TopKeys, 1, [k \in p.top |-> TopValue(k)])
    \o (IF p.has_questions
        THEN <<Open("questions")>> \o WriteElems(p.questions, 1) \o <<Close>>
        ELSE <<>>)
    \o <<RBrace>>

\* The payload part of a reply, by form.
Body(p, form) ==
    LET w == WritePayload(p)
    IN  CASE form = "whole"     -> w
          [] form = "truncated" -> SubSeq(w, 1, Len(w) - 1)
          [] form = "prose"     -> <<Head(w), Prose>> \o Tail(w)
          [] form = "none"      -> <<>>

Emit(ok, pre, payload, post, form) ==
    [ok |-> ok, pre |-> pre, payload |-> payload, post |-> post, form |-> form]

Render(e) == e.pre \o Body(e.payload, e.form) \o e.post

NoEmit == Emit(FALSE, <<>>, EmptyPayload, <<>>, "none")

\* Sequences over S of length at most n.
SeqsUpTo(S, n) == UNION {[1..k -> S] : k \in 0..n}

AllElems ==
    {Elem(1, FieldSet), Elem(2, FieldSet), Elem(1, {})}
    \cup {Elem(1, FieldSet \ {f}) : f \in FieldSet}
    \cup {Elem(2, {"question", "answer"})}

Payloads(tops, elems) ==
    {Payload(top, TRUE, qs) : top \in tops, qs \in SeqsUpTo(elems, MaxQuestions)}
    \cup {Payload(top, FALSE, <<>>) : top \in tops}

Surround == {<<>>, <<Prose>>, <<LBrace>>, <<RBrace>>}

ParseEmits ==
    {Emit(TRUE, pre, p, post, "whole") :
        pre \in Surround, post \in Surround,
        p \in Payloads(SUBSET AllTop, AllElems)}
    \cup {Emit(TRUE, pre, p, post, form) :
        pre \in {<<>>, <<Prose>>}, post \in {<<>>, <<Prose>>},
        form \in {"truncated", "prose"},
        p \in Payloads({{}, {"summary"}}, {Elem(1, FieldSet)})}
    \cup {Emit(TRUE, pre, EmptyPayload, post, "none") :
        pre \in Surround, post \in Surround}

----------------------------------------------------------------------------
(* Values of the variables a specification does not use. *)

\* An uploaded file: its name split at the dots, and its bytes (see the
\* extractor); present is FALSE when the uploader is empty.
Upload(name, data, pages) ==
    [present |-> TRUE, name |-> name, data |-> data, pages |-> pages]
NoUpload == [present |-> FALSE, name |-> <<>>, data |-> "garbage", pages |-> <<>>]

NoWidgets ==
    [resume_file |-> NoUpload, resume_text |-> <<>>, jd_file |-> NoUpload,
     jd_text |-> <<>>, short_mode |-> FALSE, button |-> "none"]
NoFile == [suffix |-> <<>>, exists |-> FALSE, data |-> "garbage", pages |-> <<>>]
NoShown ==
    [error |-> <<>>, results |-> FALSE, metrics |-> NoMetrics, cards |-> <<>>,
     story |-> <<>>]
NoSession == [has |-> FALSE, analysis_result |-> NoResult]
NoOutcome == Raised("", <<>>)

Idle ==
    /\ session_state = NoSession
    /\ runs = 0
    /\ widgets = NoWidgets
    /\ tmp_files = {}
    /\ resume_content = <<>>
    /\ jd_content = <<>>
    /\ client = FALSE
    /\ requests = <<>>
    /\ log = <<>>
    /\ json_str = <<>>
    /\ outcome = NoOutcome
    /\ shown = NoShown
    /\ extracted = ExtractRaised("", <<>>)

----------------------------------------------------------------------------
(* The session: main() (src/app.py 283-575), run again from the top on     *)
(* every interaction, with st.session_state and the disk kept between runs.*)

\* not api_key (line 359), with only an unset variable taken for absent.
NotApiKeyUnsetOnly(k) == ~k.set

\* not api_key (line 359): None and '' are both falsy.
NotApiKey(k) == ~k.set \/ k.val = ""

\* Where the script goes when the request raised, retrying the request.
AfterRequestErrorRetry == "prompt"

\* Where the script goes when the request raised (lines 87-88, 471-473).
AfterRequestError == "done"

Pdf == <<"p", "d", "f">>
Txt == <<"t", "x", "t">>
Md == <<"m", "d">>

GoodPdf == Upload(<<<<"c", "v">>, Pdf>>, "pdfdoc", <<<<" ", "r">>, <<" ">>>>)
CorruptPdf == Upload(<<<<"c", "v">>, Pdf>>, "garbage", <<>>)
GoodMd == Upload(<<<<"j", "d">>, Md>>, "utf8text", <<<<"j", " ">>>>)
BadTxt == Upload(<<<<"j", "d">>, Txt>>, "garbage", <<>>)

\* The resume uploader and text area, and those of the job description.
ResumeInputs ==
    {<<NoUpload, <<>>>>, <<NoUpload, <<" ">>>>, <<NoUpload, <<"r", " ">>>>,
     <<GoodPdf, <<>>>>, <<CorruptPdf, <<"r">>>>}

JdInputs ==
    {<<NoUpload, <<>>>>, <<NoUpload, <<"j">>>>, <<GoodMd, <<>>>>, <<BadTxt, <<"j">>>>}

\* The widget values of a run; a run that does not analyse reads none of the
\* inputs, and is taken with the inputs empty.
WidgetValues ==
    {[resume_file |-> r[1], resume_text |-> r[2], jd_file |-> j[1],
      jd_text |-> j[2], short_mode |-> sm, button |-> "process"] :
        r \in ResumeInputs, j \in JdInputs, sm \in BOOLEAN}
    \cup {[NoWidgets EXCEPT !.button = b] : b \in {"download", "none"}}

SessionElems ==
    {Elem(1, FieldSet), Elem(2, FieldSet), Elem(1, FieldSet \ {"category"})}

SessionEmits ==
    {Emit(TRUE, <<Prose>>, p, <<Prose>>, "whole") :
        p \in Payloads({AllTop}, SessionElems)}
    \cup {Emit(TRUE, <<>>, Payload({}, TRUE, <<Elem(1, FieldSet)>>), <<>>, form) :
             form \in {"whole", "truncated", "prose"}}
    \cup {Emit(TRUE, <<Prose>>, EmptyPayload, <<>>, "none")}
    \cup {NoEmit}

Init ==
    /\ Idle
    /\ env_key \in {[set |-> FALSE, val |-> ""], [set |-> TRUE, val |-> ""],
                    [set |-> TRUE, val |-> "sk"]}
    /\ emit = NoEmit
    /\ content = <<>>
    /\ file = NoFile
    /\ pc = "idle"

\* name.split('.')[-1]
LastPart(name) == name[Len(name)]

\* The temporary file of lines 448-449 / 457-458: created with the suffix
\* "." + the part of the upload's name after its last dot, holding its bytes.
TmpFile(upload) ==
    [suffix |-> <<".">> \o LastPart(upload.name), exists |-> TRUE,
     data |-> upload.data, pages |-> upload.pages]

\* st.error(f"Error processing documents: {str(e)}") of line 472.
ProcessingError(exc) == <<"Error processing documents: ">> \o exc.msg

\* A user interaction starts a run of the script.  The download button
\* exists only when the previous run rendered the results block.
Rerun ==
    /\ pc \in {"idle", "done", "stopped"}
    /\ runs < MaxRuns
    /\ runs' = runs + 1
    /\ \E w \in WidgetValues :
          /\ w.button = "download" => shown.results
          /\ widgets' = w
    /\ pc' = "start"
    /\ resume_content' = <<>>
    /\ jd_content' = <<>>
    /\ client' = FALSE
    /\ requests' = <<>>
    /\ log' = <<>>
    /\ emit' = NoEmit
    /\ content' = <<>>
    /\ json_str' = <<>>
    /\ outcome' = NoOutcome
    /\ shown' = NoShown
    /\ file' = NoFile
    /\ extracted' = ExtractRaised("", <<>>)
    /\ UNCHANGED <<env_key, session_state, tmp_files>>

\* Lines 356-361: without a credential the run ends at st.stop().
CheckCredential ==
    /\ pc = "start"
    /\ IF NotApiKey(env_key)
       THEN /\ shown' = [shown EXCEPT !.error = <<"OpenAI API key not found">>]
            /\ pc' = "stopped"
       ELSE /\ shown' = shown
            /\ pc' = "button"
    /\ UNCHANGED <<env_key, session_state, runs, widgets, tmp_files, resume_content,
                   jd_content, client, requests, log, emit, content, json_str,
                   outcome, file, extracted>>

\* Lines 429-444: the button test, the two input checks, and the components.
Validate ==
    /\ pc = "button"
    /\ IF widgets.button # "process"
       THEN /\ pc' = "display"
            /\ UNCHANGED <<shown, client>>
       ELSE IF ~widgets.resume_file.present /\ Strip(widgets.resume_text) = <<>>
       THEN /\ shown' = [shown EXCEPT !.error = <<"Please upload a resume file">>]
            /\ pc' = "done"
            /\ UNCHANGED client
       ELSE IF ~widgets.jd_file.present /\ Strip(widgets.jd_text) = <<>>
       THEN /\ shown' = [shown EXCEPT
                            !.error = <<"Please upload a job description file">>]
            /\ pc' = "done"
            /\ UNCHANGED client
       ELSE /\ client' = TRUE
            /\ pc' = "resume"
            /\ UNCHANGED shown
    /\ UNCHANGED <<env_key, session_state, runs, widgets, tmp_files, resume_content,
                   jd_content, requests, log, emit, content, json_str, outcome,
                   file, extracted>>

\* Lines 446-453.  The temporary file is created with delete=False and is
\* unlinked by the statement after the extraction, which an exception skips.
HandleResume ==
    /\ pc = "resume"
    /\ IF widgets.resume_file.present
       THEN LET tmp == TmpFile(widgets.resume_file)
                got == ExtractTextFromFile(tmp)
            IN  /\ file' = tmp
                /\ extracted' = got
                /\ log' = Append(log, [step |-> "resume", ok |-> got.ok])
                /\ IF got.ok
                   THEN /\ resume_content' = got.value
                        /\ tmp_files' = tmp_files
                        /\ pc' = "jd"
                        /\ shown' = shown
                   ELSE /\ resume_content' = resume_content
                        /\ tmp_files' = tmp_files \cup {[run |-> runs, of |-> "resume"]}
                        /\ pc' = "done"
                        /\ shown' = [shown EXCEPT !.error = ProcessingError(got.exc)]
       ELSE /\ resume_content' = Strip(widgets.resume_text)
            /\ log' = Append(log, [step |-> "resume", ok |-> TRUE])
            /\ pc' = "jd"
            /\ UNCHANGED <<file, extracted, tmp_files, shown>>
    /\ UNCHANGED <<env_key, session_state, runs, widgets, jd_content, client,
                   requests, emit, content, json_str, outcome>>

\* Lines 455-462.
HandleJd ==
    /\ pc = "jd"
    /\ IF widgets.jd_file.present
       THEN LET tmp == TmpFile(widgets.jd_file)
                got == ExtractTextFromFile(tmp)
            IN  /\ file' = tmp
                /\ extracted' = got
                /\ log' = Append(log, [step |-> "jd", ok |-> got.ok])
                /\ IF got.ok
                   THEN /\ jd_content' = got.value
                        /\ tmp_files' = tmp_files
                        /\ pc' = "prompt"
                        /\ shown' = shown
                   ELSE /\ jd_content' = jd_content
                        /\ tmp_files' = tmp_files \cup {[run |-> runs, of |-> "jd"]}
                        /\ pc' = "done"
                        /\ shown' = [shown EXCEPT !.error = ProcessingError(got.exc)]
       ELSE /\ jd_content' = Strip(widgets.jd_text)
            /\ log' = Append(log, [step |-> "jd", ok |-> TRUE])
            /\ pc' = "prompt"
            /\ UNCHANGED <<file, extracted, tmp_files, shown>>
    /\ UNCHANGED <<env_key, session_state, runs, widgets, resume_content, client,
                   requests, emit, content, json_str, outcome>>

\* Lines 73-84: the prompt is built and the one request is sent; the endpoint
\* answers with a reply or the request raises.
CallModel ==
    /\ pc = "prompt"
    /\ requests' = Append(requests,
                          CreateAnalysisPrompt(resume_content, jd_content,
                                               NumQuestions(widgets.short_mode)))
    /\ \E e \in SessionEmits :
          /\ emit' = e
          /\ log' = log \o <<[step |-> "prompt", ok |-> TRUE],
                             [step |-> "call", ok |-> e.ok]>>
          /\ IF e.ok
             THEN /\ content' = Render(e)
                  /\ pc' = "parse"
                  /\ UNCHANGED <<outcome, shown>>
             ELSE /\ content' = content
                  /\ outcome' = Rewrapped(Exc("APIError", <<"request failed">>))
                  /\ pc' = AfterRequestError
                  /\ shown' = [shown EXCEPT
                       !.error = ProcessingError(
                           Rewrapped(Exc("APIError", <<"request failed">>)).exc)]
    /\ UNCHANGED <<env_key, session_state, runs, widgets, tmp_files, resume_content,
                   jd_content, client, json_str, file, extracted>>

\* ParseReply with an except branch that also drops the stored result
\* (del st.session_state['analysis_result']) when the parse fails.
ParseReplyClearsOnFailure ==
    /\ pc = "parse"
    /\ json_str' = JsonStr(content)
    /\ outcome' = ParsedReply(content)
    /\ log' = Append(log, [step |-> "parse", ok |-> outcome'.ok])
    /\ IF outcome'.ok
       THEN /\ session_state' = [has |-> TRUE, analysis_result |-> outcome'.value]
            /\ pc' = "display"
            /\ shown' = shown
       ELSE /\ session_state' = NoSession
            /\ pc' = "done"
            /\ shown' = [shown EXCEPT !.error = ProcessingError(outcome'.exc)]
    /\ UNCHANGED <<env_key, runs, widgets, tmp_files, resume_content, jd_content,
                   client, requests, emit, content, file, extracted>>

\* Lines 84-88 and 466-473: the reply is parsed inside the try block of
\* generate_questions; a result is stored in the session state, an exception
\* is reported and ends the run.
ParseReply ==
    /\ pc = "parse"
    /\ json_str' = JsonStr(content)
    /\ outcome' = ParsedReply(content)
    /\ log' = Append(log, [step |-> "parse", ok |-> outcome'.ok])
    /\ IF outcome'.ok
       THEN /\ session_state' = [has |-> TRUE, analysis_result |-> outcome'.value]
            /\ pc' = "display"
            /\ shown' = shown
       ELSE /\ session_state' = session_state
            /\ pc' = "done"
            /\ shown' = [shown EXCEPT !.error = ProcessingError(outcome'.exc)]
    /\ UNCHANGED <<env_key, runs, widgets, tmp_files, resume_content, jd_content,
                   client, requests, emit, content, file, extracted>>

\* Lines 475-575: the results block, and the crib sheet when the download
\* button was pressed.
Display ==
    /\ pc = "display"
    /\ IF session_state.has
       THEN LET result == session_state.analysis_result
            IN  shown' = [shown EXCEPT
                    !.results = TRUE,
                    !.metrics = Metrics(result),
                    !.cards = Cards(result.questions, 1),
                    !.story = IF widgets.button = "download"
                              THEN ExportCribSheet(result)
                              ELSE <<>>]
       ELSE shown' = shown
    /\ pc' = "done"
    /\ UNCHANGED <<env_key, session_state, runs, widgets, tmp_files, resume_content,
                   jd_content, client, requests, log, emit, content, json_str,
                   outcome, file, extracted>>

Next ==
    \/ Rerun
    \/ CheckCredential
    \/ Validate
    \/ HandleResume
    \/ HandleJd
    \/ CallModel
    \/ ParseReply
    \/ Display

Spec == Init /\ [][Next]_vars

----------------------------------------------------------------------------
(* The parser alone: _parse_response applied to every reply of ParseEmits. *)

InitParse ==
    /\ Idle
    /\ env_key = [set |-> TRUE, val |-> "sk"]
    /\ file = NoFile
    /\ pc = "parse_call"
    /\ emit \in ParseEmits
    /\ content = Render(emit)

ParseCall ==
    /\ pc = "parse_call"
    /\ json_str' = JsonStr(content)
    /\ outcome' = ParseResponse(content)
    /\ pc' = "parse_done"
    /\ UNCHANGED <<env_key, session_state, runs, widgets, tmp_files, resume_content,
                   jd_content, client, requests, log, emit, content, shown, file,
                   extracted>>

NextParse == ParseCall

SpecParse == InitParse /\ [][NextParse]_vars

----------------------------------------------------------------------------
(* The extractor alone: extract_text_from_file applied to every file of    *)
(* Files.                                                                  *)

Suffixes ==
    {<<".", a, b, c>> : a \in {"p", "P"}, b \in {"d", "D"}, c \in {"f", "F"}}
    \cup {<<".", a, b, c>> : a \in {"t", "T"}, b \in {"x", "X"}, c \in {"t", "T"}}
    \cup {<<".", a, b>> : a \in {"m", "M"}, b \in {"d", "D"}}
    \cup {<<>>, <<".", "d", "o", "c", "x">>, <<".", "D", "O", "C", "X">>,
          <<".", "d", "o", "c">>, <<".", "p", "d">>, <<".", "p", "d", "f", "x">>,
          <<".", "t", "x">>, <<".", "m", "d", "x">>, <<".", "m">>,
          <<".", "p", "d", "t">>}

PageTexts == {<<>>, <<<<"a">>>>, <<<<" ", "a">>, <<"b", " ">>>>}

Files ==
    {[suffix |-> sfx, exists |-> ex, data |-> d, pages |-> pg] :
        sfx \in Suffixes, ex \in BOOLEAN,
        d \in {"pdfdoc", "utf8text", "garbage"}, pg \in PageTexts}

InitExtract ==
    /\ Idle
    /\ env_key = [set |-> TRUE, val |-> "sk"]
    /\ emit = NoEmit
    /\ content = <<>>
    /\ pc = "extract_call"
    /\ file \in Files

ExtractCall ==
    /\ pc = "extract_call"
    /\ extracted' = ExtractTextFromFile(file)
    /\ pc' = "extract_done"
    /\ UNCHANGED <<env_key, session_state, runs, widgets, tmp_files, resume_content,
                   jd_content, client, requests, log, emit, content, json_str,
                   outcome, shown, file>>

NextExtract == ExtractCall

SpecExtract == InitExtract /\ [][NextExtract]_vars

----------------------------------------------------------------------------
(* The exporter alone: export_crib_sheet applied to AnalysisResults of 0   *)
(* to MaxExportQuestions questions.                                        *)

\* Question number k of an exported result: every text is its own.
ExportQuestion(k) ==
    InterviewQuestion(Str(<<"Q", ToString(k)>>), Str(<<"A", ToString(k)>>),
                      Str(<<IF k % 2 = 1 THEN "technical" ELSE "behavioral">>),
                      Num(1000 - 50 * k))

ExportResults ==
    {AnalysisResult([k \in 1..n |-> ExportQuestion(k)], summary, skills, gaps) :
        n \in 0..MaxExportQuestions,
        summary \in {Str(<<>>), Str(<<"S">>)},
        skills \in {List(<<>>), List(<<"A", "B">>)},
        gaps \in {List(<<>>), List(<<"G">>)}}

InitExport ==
    /\ runs = 0
    /\ widgets = NoWidgets
    /\ tmp_files = {}
    /\ resume_content = <<>>
    /\ jd_content = <<>>
    /\ client = FALSE
    /\ requests = <<>>
    /\ log = <<>>
    /\ json_str = <<>>
    /\ outcome = NoOutcome
    /\ shown = NoShown
    /\ extracted = ExtractRaised("", <<>>)
    /\ env_key = [set |-> TRUE, val |-> "sk"]
    /\ emit = NoEmit
    /\ content = <<>>
    /\ file = NoFile
    /\ pc = "export_call"
    /\ \E r \in ExportResults : session_state = [has |-> TRUE, analysis_result |-> r]

ExportCall ==
    /\ pc = "export_call"
    /\ shown' = [shown EXCEPT !.story = ExportCribSheet(session_state.analysis_result)]
    /\ pc' = "export_done"
    /\ UNCHANGED <<env_key, session_state, runs, widgets, tmp_files, resume_content,
                   jd_content, client, requests, log, emit, content, json_str,
                   outcome, file, extracted>>

NextExport == ExportCall

SpecExport == InitExport /\ [][NextExport]_vars

----------------------------------------------------------------------------
(* Vocabulary of the claims. *)

HasKind(s, t) == \E i \in DOMAIN s : s[i].t = t

\* The reply is prose without '{', one whole payload, and prose without '}'.
Wrapped(e) ==
    /\ e.ok
    /\ e.form = "whole"
    /\ ~HasKind(e.pre, "lbrace")
    /\ ~HasKind(e.post, "rbrace")

\* The elements of the payload that lack a required field.
Offending(p) ==
    {i \in DOMAIN p.questions : \E f \in FieldSet : f \notin DOMAIN p.questions[i]}

\* The part x occurs in the message.
Mentions(msg, x) == \E j \in DOMAIN msg : msg[j] = x

\* The spec's MalformedReplyError is the ValueError _parse_response raises.
IsMalformedReply(o) == ~o.ok /\ o.exc.type = "ValueError"

\* The questions member of a payload whose elements are all complete,
\* converted element by element.
WholeQuestions(p) ==
    [i \in DOMAIN p.questions |->
        InterviewQuestion(p.questions[i]["question"], p.questions[i]["answer"],
                          p.questions[i]["category"], p.questions[i]["confidence"])]

\* This run has parsed a reply.
Parsed == log # <<>> /\ log[Len(log)].step = "parse"

\* The spec's ModelRequestError is the RuntimeError of generate_questions.
IsModelRequestError(o) ==
    /\ ~o.ok
    /\ o.exc.type = "RuntimeError"
    /\ o.exc.msg # <<>>
    /\ o.exc.msg[1] = GeneratePrefix

CredentialAbsent == ~env_key.set \/ env_key.val = ""

IsHeading(e) == e.q > 0

----------------------------------------------------------------------------
(* C1 *)

\* C1 as stated: when an analysis ends, no temporary file created for an
\* upload of that run is left on disk, whether the extraction returned or
\* raised.
C1_TempFilesDeleted ==
    pc = "done" => \A t \in tmp_files : t.run # runs

----------------------------------------------------------------------------
(* C2 *)

C2_State ==
    /\ (Parsed /\ Wrapped(emit)) =>
          /\ Offending(emit.payload) # {} => ~outcome.ok
          /\ outcome.ok =>
                /\ outcome.value.questions = WholeQuestions(emit.payload)
                /\ session_state.has
                /\ session_state.analysis_result = outcome.value
    /\ (Parsed /\ ~outcome.ok) =>
          /\ outcome.value = NoResult
          /\ pc = "done"
          /\ ~shown.results
          /\ shown.cards = <<>>
          /\ shown.story = <<>>

C2_Step ==
    session_state' # session_state =>
        /\ outcome'.ok
        /\ session_state' = [has |-> TRUE, analysis_result |-> outcome'.value]
        /\ Wrapped(emit') =>
              /\ Offending(emit'.payload) = {}
              /\ outcome'.value.questions = WholeQuestions(emit'.payload)

\* C2: parsing is all-or-nothing.  A reply whose payload has an element that
\* lacks a field yields an exception and no AnalysisResult; a returned
\* AnalysisResult holds every element of the payload; the session state is
\* written only with such a whole result, and a run whose parse failed renders
\* no results.
C2_AllOrNothing == []C2_State /\ [][C2_Step]_vars

\* C2 witness: the second of two elements lacks a field, the parse has failed
\* and the run has ended.
C2_Witness ==
    /\ pc = "done"
    /\ Parsed
    /\ Wrapped(emit)
    /\ Offending(emit.payload) = {2}
    /\ ~outcome.ok

----------------------------------------------------------------------------
(* C4 *)

\* C4 as stated: generate_questions fails with ModelRequestError only when the
\* request itself failed; a reply that was received and could not be parsed
\* surfaces as MalformedReplyError, not as ModelRequestError.
C4_DistinctErrorKinds ==
    (pc = "done" /\ requests # <<>> /\ ~outcome.ok) =>
        /\ IsModelRequestError(outcome) <=> ~emit.ok
        /\ emit.ok => IsMalformedReply(outcome)

----------------------------------------------------------------------------
(* C7 *)

\* C7: a parsed AnalysisResult has the payload's questions, as many, in the
\* same order, with the four values unchanged, whatever count was requested;
\* the results block and the crib sheet enumerate the stored questions in
\* that order, numbered 1..n, each once.
C7_OrderAndCountPreserved ==
    LET qs == session_state.analysis_result.questions
        heads == SelectSeq(shown.story, IsHeading)
    IN  /\ (Parsed /\ outcome.ok /\ Wrapped(emit)) =>
              /\ Len(outcome.value.questions) = Len(emit.payload.questions)
              /\ \A i \in DOMAIN emit.payload.questions :
                    \A f \in FieldSet :
                        outcome.value.questions[i][f] = emit.payload.questions[i][f]
              /\ qs = outcome.value.questions
        /\ shown.results =>
              /\ shown.metrics.questions = Len(qs)
              /\ Len(shown.cards) = Len(qs)
              /\ \A i \in DOMAIN qs :
                    /\ shown.cards[i].q = i
                    /\ shown.cards[i].question = qs[i].question.v
                    /\ shown.cards[i].answer = qs[i].answer.v
        /\ shown.story # <<>> =>
              /\ Len(heads) = Len(qs)
              /\ \A i \in DOMAIN qs :
                    /\ heads[i].q = i
                    /\ heads[i].text = qs[i].question.v
              /\ \A k \in DOMAIN shown.story :
                    IsHeading(shown.story[k]) =>
                        /\ k + 2 <= Len(shown.story)
                        /\ shown.story[k + 2].text = qs[shown.story[k].q].answer.v

\* C7 witness: a stored result with two different questions has been rendered
\* and exported.
C7_Witness ==
    /\ pc = "done"
    /\ shown.story # <<>>
    /\ Len(session_state.analysis_result.questions) = 2
    /\ session_state.analysis_result.questions[1]
          # session_state.analysis_result.questions[2]

\* C7 witness of the count: three questions were requested and two came back
\* and were stored.
C7_WitnessCount ==
    /\ Parsed
    /\ outcome.ok
    /\ requests[1].num_questions = 3
    /\ Len(session_state.analysis_result.questions) = 2

----------------------------------------------------------------------------
(* C8 *)

StepOrder == <<"resume", "jd", "prompt", "call", "parse">>

\* C8: a run sends at most one request; its steps are a prefix of extract
\* resume, extract job description, build prompt, call model, parse; the
\* request carries both extracted texts; a failed step is the last step of
\* the run.
C8_SingleShotLinear ==
    /\ Len(requests) <= 1
    /\ Len(requests) = Cardinality({i \in DOMAIN log : log[i].step = "call"})
    /\ Len(log) <= Len(StepOrder)
    /\ \A i \in DOMAIN log : log[i].step = StepOrder[i]
    /\ \A i \in DOMAIN log : i < Len(log) => log[i].ok
    /\ requests # <<>> =>
          /\ requests[1].resume_text = resume_content
          /\ requests[1].job_description = jd_content
    /\ (\E i \in DOMAIN log : ~log[i].ok) => pc = "done"

\* C8 witness: the request was sent, the parse failed, and the run ended with
\* one request made.
C8_Witness ==
    /\ pc = "done"
    /\ Len(log) = 5
    /\ ~log[5].ok
    /\ Len(requests) = 1

\* C8 witness of a failed request ending the run.
C8_WitnessRequestFailed ==
    /\ pc = "done"
    /\ Len(log) = 4
    /\ ~log[4].ok

----------------------------------------------------------------------------
(* C9 *)

\* C9: without a credential (unset or empty) no run constructs the model
\* client, sends a request, or stores an AnalysisResult.
C9_NoCredentialNoCall ==
    CredentialAbsent =>
        /\ ~client
        /\ requests = <<>>
        /\ log = <<>>
        /\ ~session_state.has
        /\ pc \in {"idle", "start", "stopped"}

\* C9 witness: the credential is set and empty, the user pressed the analysis
\* button with both inputs given, and the run stopped.
C9_Witness ==
    /\ env_key = [set |-> TRUE, val |-> ""]
    /\ pc = "stopped"
    /\ widgets.button = "process"
    /\ widgets.resume_file.present
    /\ widgets.jd_file.present

----------------------------------------------------------------------------
(* C3 *)

----------------------------------------------------------------------------
(* C5 *)

\* C5: a reply without '{' or without '}' makes parsing fail with
\* MalformedReplyError; otherwise the text handed to the payload parser runs
\* from the first '{' through the last '}' inclusive, so for a payload wrapped
\* in prose (none of it holding '{' before, or '}' after) the outcome is that
\* of parsing the payload alone.
C5_BraceWindow ==
    pc = "parse_done" =>
        LET opens == {i \in DOMAIN content : content[i].t = "lbrace"}
            closes == {i \in DOMAIN content : content[i].t = "rbrace"}
        IN  /\ (opens = {} \/ closes = {}) => IsMalformedReply(outcome)
            /\ (opens # {} /\ closes # {}) =>
                  LET first == CHOOSE i \in opens : \A m \in opens : i <= m
                      last == CHOOSE i \in closes : \A m \in closes : m <= i
                  IN  json_str = SubSeq(content, first, last)
            /\ (emit.form \in {"whole", "prose"}
                /\ ~HasKind(emit.pre, "lbrace") /\ ~HasKind(emit.post, "rbrace")) =>
                  outcome = ParseResponse(Body(emit.payload, emit.form))

\* C5 witness: a payload with prose before and after it has been parsed into
\* an AnalysisResult with one question.
C5_Witness ==
    /\ pc = "parse_done"
    /\ emit.form = "whole"
    /\ emit.pre = <<Prose>>
    /\ emit.post = <<Prose>>
    /\ outcome.ok
    /\ Len(outcome.value.questions) = 1

\* C5 witness of the failing side: a reply with '}' and no '{' was rejected.
C5_WitnessNoOpen ==
    /\ pc = "parse_done"
    /\ HasKind(content, "rbrace")
    /\ ~HasKind(content, "lbrace")
    /\ ~outcome.ok

----------------------------------------------------------------------------
(* C6 *)

\* C6: the exported story of a result with n questions has, for n >= 5, one
\* page break, placed directly after the heading, metadata line and answer of
\* question 5 (and directly before the heading of question 6 when there is
\* one), and no other page break; for n < 5 it has none.
C6_PageBreakAfterFifth ==
    pc = "export_done" =>
        LET story == shown.story
            qs == session_state.analysis_result.questions
            n == Len(qs)
            breaks == {i \in DOMAIN story : story[i].el = "PageBreak"}
        IN  /\ n < 5 => breaks = {}
            /\ n >= 5 =>
                  /\ Cardinality(breaks) = 1
                  /\ \A b \in breaks :
                        /\ b > 3
                        /\ story[b - 3].q = 5
                        /\ story[b - 3].text = qs[5].question.v
                        /\ story[b - 2].el = "Paragraph"
                        /\ story[b - 2].style = "AnswerStyle"
                        /\ story[b - 1].el = "Paragraph"
                        /\ story[b - 1].text = qs[5].answer.v
                        /\ n = 5 => b = Len(story)
                        /\ n > 5 => (b < Len(story) /\ story[b + 1].q = 6)

\* C6 witness: a result with 10 questions has been exported and its story has
\* a page break.
C6_Witness ==
    /\ pc = "export_done"
    /\ Len(session_state.analysis_result.questions) = 10
    /\ \E i \in DOMAIN shown.story : shown.story[i].el = "PageBreak"

----------------------------------------------------------------------------
(* C10 *)

UpperChar(c) ==
    CASE c = "p" -> "P" [] c = "d" -> "D" [] c = "f" -> "F" [] c = "t" -> "T"
      [] c = "x" -> "X" [] c = "m" -> "M" [] OTHER -> c

SameIgnoringCase(s, t) ==
    /\ Len(s) = Len(t)
    /\ \A i \in DOMAIN s : s[i] = t[i] \/ s[i] = UpperChar(t[i])

IsSupportedSuffix(s) ==
    \E t \in {<<".", "p", "d", "f">>, <<".", "t", "x", "t">>, <<".", "m", "d">>} :
        SameIgnoringCase(s, t)

\* The spec's UnsupportedFormatError is the ValueError whose message starts
\* "Unsupported file format: ".
IsUnsupportedFormat(o) ==
    /\ ~o.ok
    /\ o.exc.type = "ValueError"
    /\ o.exc.msg # <<>>
    /\ o.exc.msg[1] = UnsupportedPrefix

\* C10: for an existing file whose extension is not .pdf, .txt or .md in any
\* letter case, extraction raises UnsupportedFormatError, the message giving
\* the file's extension as written, and returns no text; for a supported
\* extension it never raises UnsupportedFormatError.
C10_UnsupportedFormat ==
    (pc = "extract_done" /\ file.exists) =>
        /\ ~IsSupportedSuffix(file.suffix) =>
              /\ IsUnsupportedFormat(extracted)
              /\ SubSeq(extracted.exc.msg, 2, Len(file.suffix) + 1) = file.suffix
              /\ Len(extracted.exc.msg) = Len(file.suffix) + 2
              /\ extracted.value = <<>>
        /\ IsSupportedSuffix(file.suffix) => ~IsUnsupportedFormat(extracted)

\* C10 witness: an existing .DOCX file was refused.
C10_Witness ==
    /\ pc = "extract_done"
    /\ file.exists
    /\ file.suffix = <<".", "D", "O", "C", "X">>
    /\ IsUnsupportedFormat(extracted)

----------------------------------------------------------------------------
(* C11 *)

\* The empty value of a top-level member: '' for summary, [] for the lists.
EmptyDefault(k) == IF k = "summary" THEN Str(<<>>) ELSE List(<<>>)

\* C11: for a payload whose question elements are complete, parsing succeeds
\* whichever of summary, key_skills, experience_gaps the payload has (success
\* depends on the question elements alone); each of the three that is absent
\* is its empty default in the AnalysisResult ('' or []), and each that is
\* present has the payload's value.
C11_EmptyDefaults ==
    (pc = "parse_done" /\ Wrapped(emit)) =>
        /\ outcome.ok <=> Offending(emit.payload) = {}
        /\ outcome.ok =>
              \A k \in AllTop :
                  /\ k \notin emit.payload.top => outcome.value[k] = EmptyDefault(k)
                  /\ k \in emit.payload.top => outcome.value[k] = TopValue(k)

\* C11 witness: a payload with key_skills and neither summary nor
\* experience_gaps was parsed into an AnalysisResult with two questions.
C11_Witness ==
    /\ pc = "parse_done"
    /\ Wrapped(emit)
    /\ emit.payload.top = {"key_skills"}
    /\ outcome.ok
    /\ Len(outcome.value.questions) = 2
    /\ outcome.value.summary = Str(<<>>)
    /\ outcome.value.key_skills = List(<<"A", "B">>)

----------------------------------------------------------------------------
(* C12 *)

\* The steps of an analysis, as the log of a run that went through all of
\* them records them.
AnalysisSteps == <<"resume", "jd", "prompt", "call", "parse">>

\* A step that ends the run with an error message on the page.
EndsInError ==
    /\ pc \notin {"done", "stopped"}
    /\ pc' \in {"done", "stopped"}
    /\ shown'.error # <<>>

C12_Step ==
    /\ session_state' # session_state =>
          /\ widgets.button = "process"
          /\ pc = "parse" /\ pc' = "display"
          /\ [i \in 1..Len(log') |-> log'[i].step] = AnalysisSteps
          /\ \A i \in 1..Len(log') : log'[i].ok
          /\ outcome'.ok
          /\ session_state' = [has |-> TRUE, analysis_result |-> outcome'.value]
    /\ EndsInError =>
          /\ session_state' = session_state
          /\ ~shown'.results
    /\ (pc = "display" /\ pc' = "done") =>
          /\ session_state' = session_state
          /\ IF session_state.has
             THEN /\ shown'.results
                  /\ shown'.cards = Cards(session_state.analysis_result.questions, 1)
                  /\ shown'.metrics = Metrics(session_state.analysis_result)
                  /\ widgets.button = "download" =>
                        shown'.story = ExportCribSheet(session_state.analysis_result)
             ELSE ~shown'.results

====
